---- MODULE Spec2Model ----
(***************************************************************************)
(* The authentication / credential state machine of libs/auth.js: the      *)
(* express router that drives a login through the 'auth' session, the      *)
(* WebAuthn challenge kept in the session, and the lowdb user registry.    *)
(*                                                                         *)
(* A request is one atomic step.  A handler is a pure operator from a      *)
(* request context (the session the request runs in, the registry, the     *)
(* response sent so far) to the context it leaves behind; the action       *)
(* writes that context back to the state.                                  *)
(***************************************************************************)
EXTENDS Integers, Sequences, FiniteSets, TLC

\* ------------------------------------------------------------------ bounds
\* Session ids ever generated by the session store.
MaxTokens == 2
\* Challenges ever generated by the options endpoints.
MaxChallenges == 2
\* Longest credential list of one user.
MaxCreds == 2
\* Requests handled since the server started.
MaxRequests == 5

\* ------------------------------------------------------------ input values
\* Well-formed e-mail addresses a client may send as username.
Usernames == {"alice@x.com", "b&b@x.com"}
\* Usernames that check("username").notEmpty().isEmail() rejects.
BadUsernames == {"", "alice"}
Passwords == {"secret", "wrong"}
CredIds == {"k1", "k2"}
Names == {"", " key "}

\* User-Agent headers, as sequences of characters.  req.get("User-Agent") is
\* undefined when the request carries no such header.
okhttp == <<"o", "k", "h", "t", "t", "p">>
Header(text) == [defined |-> TRUE, text |-> text]
NoHeader == [defined |-> FALSE, text |-> << >>]
Browser == Header(<<"M", "o", "z">>)
UserAgents ==
  { Header(okhttp \o <<"/", "4">>), Browser, Header(<<"x">> \o okhttp),
    Header(<< >>), NoHeader }

\* JavaScript's undefined, for the string-valued fields.
Undefined == "undefined"
\* A falsy value of a string-valued field (!v in the source).
Falsy(v) == v = Undefined \/ v = "" \/ v = "false"

\* -------------------------------------------------------- configuration
SINGLE_FACTOR == "sfa"
TWO_FACTOR == "2fa"
NEED_SECOND_FACTOR == "needSecondFactor"
COMPLETE == "complete"
GENERIC_AUTH_ERROR_MESSAGE ==
  "Username or password incorrect or credential not found or user verification failed"

\* ------------------------------------------------------------------ state
VARIABLES
  users,         \* db.users: the sequence of user records of the lowdb file
  store,         \* the session store: session id -> session record
  cookies,       \* the session ids clients were handed in a response
  nextToken,     \* the next session id the store generates
  nextChallenge, \* the next challenge the options endpoints generate
  mainMade,      \* history: the session ids completeAuthentication generated
  consumed,      \* history: the challenges a verification was run against
  issuedBy,      \* history: challenge -> the options endpoint that generated it
  issuedTo,      \* history: challenge -> the id of the session it was stored in
  requests,      \* the number of requests handled so far
  inflight,      \* the requests whose handler is suspended at an await
  last           \* the request handled last: its inputs and its outcome

vars ==
  <<users, store, cookies, nextToken, nextChallenge, mainMade, consumed, issuedBy,
    issuedTo, requests, inflight, last>>

\* req.session of a request that presents no live session id.
EmptySession ==
  [name |-> Undefined, username |-> Undefined, isPasswordCorrect |-> Undefined,
   authStatus |-> Undefined, challenge |-> 0]

NoResponse == [status |-> 0, error |-> Undefined, authStatus |-> Undefined]

Put(f, k, v) == [x \in DOMAIN f \cup {k} |-> IF x = k THEN v ELSE f[x]]
Remove(f, k) == [x \in DOMAIN f \ {k} |-> f[x]]

\* ------------------------------------------------------------------ utils
isPasswordCorrect(username, password) == TRUE

\* Mutant of getAuthType: two-factor only from the second credential on.
getAuthType_offByOne(credentials) ==
  IF Len(credentials) > 1 THEN TWO_FACTOR ELSE SINGLE_FACTOR

getAuthType(credentials) ==
  IF Len(credentials) > 0 THEN TWO_FACTOR ELSE SINGLE_FACTOR

\* String.prototype.indexOf: the first position (from 0) at which searchString
\* occurs in str, -1 when it does not occur.
indexOf(str, searchString) ==
  LET n == Len(searchString)
      at == {i \in 0 .. (Len(str) - n) : SubSeq(str, i + 1, i + n) = searchString}
  IN  IF at = {} THEN -1 ELSE CHOOSE i \in at : \A j \in at : i <= j

\* process.env.ORIGIN, and the origin made of process.env.ANDROID_SHA256HASH.
ORIGIN == "https://rp.example"
androidOrigin == "android:apk-key-hash:HASH"

\* getOrigin(userAgent); indexOf of undefined throws a TypeError.
getOrigin(userAgent) ==
  IF ~userAgent.defined THEN "TypeError"
  ELSE IF indexOf(userAgent.text, okhttp) = 0 THEN androidOrigin
  ELSE ORIGIN

\* The escape() sanitizer of express-validator on the values modelled here.
escape(s) == IF s = "b&b@x.com" THEN "b&amp;b@x.com" ELSE s

\* The trim() sanitizer of express-validator on the values modelled here.
trim(s) == IF s = " key " THEN "key" ELSE s

\* ------------------------------------------------------------- registry
\* Index in db.users of the first record with this username, 0 for undefined.
findUserByUsername(us, username) ==
  IF \E i \in DOMAIN us : us[i].username = username
    THEN CHOOSE i \in DOMAIN us :
           /\ us[i].username = username
           /\ \A j \in DOMAIN us : us[j].username = username => i <= j
    ELSE 0

createUser(us, user) == Append(us, user)

updateUser(us, username, user) ==
  LET k == findUserByUsername(us, username)
  IN  [i \in DOMAIN us |-> IF i = k THEN user ELSE us[i]]

\* Mutant of updateCredentials: the credentials are assigned to every user.
updateCredentials_everyUser(us, username, credentials) ==
  [i \in DOMAIN us |-> [us[i] EXCEPT !.credentials = credentials]]

updateCredentials(us, username, credentials) ==
  LET k == findUserByUsername(us, username)
  IN  [i \in DOMAIN us |->
         IF i = k THEN [us[i] EXCEPT !.credentials = credentials] ELSE us[i]]

\* Mutant of createOrGetUser: a user is created at every call.
createOrGetUser_always(us, username) ==
  createUser(us, [username |-> username, id |-> Len(us) + 1,
                  credentials |-> << >>])

\* The registry after createOrGetUser(username); the user is then
\* us[findUserByUsername(us, username)].  The random 32-byte id is modelled
\* by the position of the record, which no other record shares.
createOrGetUser(us, username) ==
  IF findUserByUsername(us, username) = 0
    THEN createUser(us, [username |-> username, id |-> Len(us) + 1,
                         credentials |-> << >>])
    ELSE us

\* Mutant of findCredential: the first credential, whatever its credId.
findCredential_first(credentials, credId) ==
  IF credentials = << >> THEN 0 ELSE 1

\* Mutant of findCredential: a credId that is not found falls back on the
\* first credential.
findCredential_orFirst(credentials, credId) ==
  IF \E i \in DOMAIN credentials : credentials[i].credId = credId
    THEN CHOOSE i \in DOMAIN credentials :
           /\ credentials[i].credId = credId
           /\ \A j \in DOMAIN credentials : credentials[j].credId = credId => i <= j
    ELSE IF credentials = << >> THEN 0 ELSE 1

\* Index of the first credential with this credId, 0 for undefined / -1.
findCredential(credentials, credId) ==
  IF \E i \in DOMAIN credentials : credentials[i].credId = credId
    THEN CHOOSE i \in DOMAIN credentials :
           /\ credentials[i].credId = credId
           /\ \A j \in DOMAIN credentials : credentials[j].credId = credId => i <= j
    ELSE 0

\* ------------------------------------------------------ external verifier
\* fido2.verifyAssertionResponse: throws unless the response was made for the
\* expected challenge with the stored authenticator; otherwise reports
\* whether the signature verifies.
verifyAssertionResponse(credential, expectedChallenge, authenticatorFound) ==
  IF \/ ~authenticatorFound
     \/ expectedChallenge = 0
     \/ credential.challenge # expectedChallenge
    THEN "throws"
    ELSE IF credential.sig = "valid" THEN "verified" ELSE "unverified"

\* fido2.verifyAttestationResponse: the same contract, without authenticator.
verifyAttestationResponse(credential, expectedChallenge) ==
  IF \/ expectedChallenge = 0
     \/ credential.challenge # expectedChallenge
    THEN "throws"
    ELSE IF credential.sig = "valid" THEN "verified" ELSE "unverified"

\* -------------------------------------------------------- request context
\* The context a request starts in: req.session is the stored session of the
\* presented id, or a new empty session under a newly generated id.
Request(tok, us, st, nt, nc) ==
  LET live == tok \in DOMAIN st
  IN  [tok |-> tok,
       sid |-> IF live THEN tok ELSE nt,
       sess |-> IF live THEN st[tok] ELSE EmptySession,
       pre |-> IF live THEN st[tok] ELSE EmptySession,
       users |-> us,
       users0 |-> us,
       name |-> Undefined,
       password |-> Undefined,
       userAgent |-> NoHeader,
       origin |-> Undefined,
       nextToken |-> IF live THEN nt ELSE nt + 1,
       nextChallenge |-> nc,
       resp |-> NoResponse,
       cookie |-> 0,
       thrown |-> FALSE,
       save |-> TRUE,
       destroyed |-> FALSE,
       regenerated |-> FALSE,
       oldSid |-> 0,
       oldKept |-> FALSE,
       atComplete |-> EmptySession,
       outcome |-> "none",
       expected |-> 0,
       created |-> FALSE,
       added |-> FALSE]

\* res.status(status).json(...): the first call sends the response, with the
\* cookie of the session the request then has; a call after a response was
\* sent throws (headers already sent).
Respond(c, status, error, authStatus) ==
  IF c.resp.status # 0
    THEN [c EXCEPT !.thrown = TRUE]
    ELSE [c EXCEPT !.resp = [status |-> status, error |-> error,
                             authStatus |-> authStatus],
                   !.cookie = c.sid]

\* ------------------------------------------------------------ middleware
csrfCheck(c, xhr) ==
  IF ~xhr THEN Respond(c, 400, "Invalid access", Undefined) ELSE c

\* Mutant of sessionCheck: any session that holds a username passes.
sessionCheck_hasUsername(c) ==
  IF Falsy(c.sess.username)
    THEN Respond(c, 401, "Not authenticated", Undefined) ELSE c

sessionCheck(c) ==
  IF c.sess.name # "main" THEN Respond(c, 401, "Not authenticated", Undefined) ELSE c

\* ------------------------------------------------------ session management
\* router.get("/signout"): req.session.destroy() is called without a
\* callback and the redirect is sent whatever becomes of it; errD is the
\* store failing to destroy the session, which then stays stored as it was.
signout(c, errD) ==
  Respond([c EXCEPT !.destroyed = ~errD], 307, Undefined, Undefined)

\* Mutant of completeAuthentication: the check of username and
\* isPasswordCorrect is left out.
completeAuthentication_unguarded(c, errR, errS) ==
  Respond([c EXCEPT !.regenerated = TRUE,
                    !.atComplete = c.sess,
                    !.oldSid = c.sid,
                    !.oldKept = errR,
                    !.sid = c.nextToken,
                    !.nextToken = c.nextToken + 1,
                    !.sess = [EmptySession EXCEPT !.name = "main",
                                                  !.username = c.sess.username],
                    !.save = ~errS],
          200, Undefined, COMPLETE)

\* Mutant of completeAuthentication: the new session is the old one renamed.
completeAuthentication_carriesSession(c, errR, errS) ==
  LET username == c.sess.username
      passwordOk == c.sess.isPasswordCorrect
  IN  IF Falsy(username) \/ Falsy(passwordOk)
        THEN Respond(c, 401, GENERIC_AUTH_ERROR_MESSAGE, Undefined)
        ELSE Respond([c EXCEPT !.regenerated = TRUE,
                               !.atComplete = c.sess,
                               !.oldSid = c.sid,
                               !.oldKept = errR,
                               !.sid = c.nextToken,
                               !.nextToken = c.nextToken + 1,
                               !.sess = [c.sess EXCEPT !.name = "main"],
                               !.save = ~errS],
                     200, Undefined, COMPLETE)

\* completeAuthentication(req, res).  regenerate destroys the stored session
\* and gives the request a new empty one under a new id; errR is the store
\* failing to destroy the old session, errS the store failing to save the new
\* one.  Both callbacks ignore their err.
completeAuthentication(c, errR, errS) ==
  LET username == c.sess.username
      passwordOk == c.sess.isPasswordCorrect
  IN  IF Falsy(username) \/ Falsy(passwordOk)
        THEN Respond(c, 401, GENERIC_AUTH_ERROR_MESSAGE, Undefined)
        ELSE Respond([c EXCEPT !.regenerated = TRUE,
                               !.atComplete = c.sess,
                               !.oldSid = c.sid,
                               !.oldKept = errR,
                               !.sid = c.nextToken,
                               !.nextToken = c.nextToken + 1,
                               !.sess = [EmptySession EXCEPT !.name = "main",
                                                             !.username = username],
                               !.save = ~errS],
                     200, Undefined, COMPLETE)

\* Mutant of validationErrorsIsEmpty: the password is not validated.
validationErrorsIsEmpty_usernameOnly(body) ==
  body.username \notin BadUsernames

\* validationResult(req).isEmpty() for check("username").notEmpty().isEmail()
\* and check("password").notEmpty().
validationErrorsIsEmpty(body) ==
  body.username \notin BadUsernames /\ body.password # ""

\* Mutant of initializeAuthentication: the two-factor branch names the session
\* 'main' itself instead of leaving that to completeAuthentication.
initializeAuthentication_marksMain(c, body, errR, errS) ==
  IF ~validationErrorsIsEmpty(body)
    THEN Respond(c, 400,
                 "Username or password is empty or contains invalid characters",
                 Undefined)
    ELSE
      LET username == escape(body.username)
          us == createOrGetUser(c.users, username)
          user == us[findUserByUsername(us, username)]
          c1 == [c EXCEPT !.users = us,
                          !.created = findUserByUsername(c.users, username) = 0,
                          !.sess.username = username,
                          !.sess.isPasswordCorrect = "true"]
      IN  IF getAuthType(user.credentials) = SINGLE_FACTOR
            THEN completeAuthentication(c1, errR, errS)
            ELSE Respond([c1 EXCEPT !.sess.authStatus = NEED_SECOND_FACTOR,
                                    !.sess.name = "main"],
                         200, Undefined, NEED_SECOND_FACTOR)

\* router.post("/initialize-authentication")
initializeAuthentication(c, body, errR, errS) ==
  IF ~validationErrorsIsEmpty(body)
    THEN Respond(c, 400,
                 "Username or password is empty or contains invalid characters",
                 Undefined)
    ELSE
      LET username == escape(body.username)
          password == escape(body.password)
          us == createOrGetUser(c.users, username)
          user == us[findUserByUsername(us, username)]
          c1 == [c EXCEPT !.users = us,
                          !.created = findUserByUsername(c.users, username) = 0,
                          !.sess.username = username,
                          !.sess.isPasswordCorrect =
                            IF isPasswordCorrect(username, password)
                              THEN "true" ELSE "false"]
          authType == getAuthType(user.credentials)
      IN  IF authType = SINGLE_FACTOR
            THEN completeAuthentication(c1, errR, errS)
            ELSE IF authType = TWO_FACTOR
              THEN Respond([c1 EXCEPT !.sess.authStatus = NEED_SECOND_FACTOR],
                           200, Undefined, NEED_SECOND_FACTOR)
              ELSE Respond(c1, 500, "Unkown authentication type", Undefined)

\* Mutant of twoFactorOptions: the challenge is generated once for the server
\* and handed to every session.
twoFactorOptions_oneChallenge(c, xhr) ==
  LET c0 == csrfCheck(c, xhr)
      k == findUserByUsername(c.users, c.sess.username)
  IN  IF c0.resp.status # 0 THEN c0
      ELSE IF k = 0
        THEN Respond(c0, 400,
               "Getting two-factor authentication options failed: "
                 \o GENERIC_AUTH_ERROR_MESSAGE, Undefined)
        ELSE Respond([c0 EXCEPT !.sess.challenge = 1,
                                !.nextChallenge =
                                  IF c.nextChallenge = 1 THEN 2 ELSE c.nextChallenge],
                     200, Undefined, Undefined)

\* router.post("/two-factor-options")
twoFactorOptions(c, xhr) ==
  LET c0 == csrfCheck(c, xhr)
      k == findUserByUsername(c.users, c.sess.username)
  IN  IF c0.resp.status # 0 THEN c0
      ELSE IF k = 0
        \* user.credentials of undefined throws inside the try
        THEN Respond(c0, 400,
               "Getting two-factor authentication options failed: "
                 \o GENERIC_AUTH_ERROR_MESSAGE, Undefined)
        ELSE Respond([c0 EXCEPT !.sess.challenge = c.nextChallenge,
                                !.nextChallenge = c.nextChallenge + 1],
                     200, Undefined, Undefined)

\* The catch block of authenticate-two-factor and of register-credential.
catchBlock(c, message) ==
  Respond([c EXCEPT !.sess.challenge = 0, !.thrown = FALSE], 400, message, Undefined)

\* router.post("/authenticate-two-factor").  No branch that answers 401
\* returns: the handler goes on after each of them.  getOrigin is called
\* outside the try block: when it throws the request is never answered.
authenticateTwoFactor(c, xhr, userAgent, credentialFromClient, errR, errS) ==
  LET cc == csrfCheck(c, xhr)
      expectedOrigin == getOrigin(userAgent)
      c0 == IF cc.resp.status # 0 THEN cc
            ELSE [cc EXCEPT !.userAgent = userAgent, !.origin = expectedOrigin]
      username == c.sess.username
      passwordOk == c.sess.isPasswordCorrect
      expectedChallenge == c.sess.challenge
      failed == "Authentication failed: " \o GENERIC_AUTH_ERROR_MESSAGE
      c1 == IF Falsy(username) \/ Falsy(passwordOk)
              THEN Respond(c0, 401, failed, Undefined) ELSE c0
      k == findUserByUsername(c.users, username)
  IN  IF c0.resp.status # 0 THEN c0
      ELSE IF expectedOrigin = "TypeError" THEN [c0 EXCEPT !.thrown = TRUE]
      \* user.credentials of undefined throws outside the try
      ELSE IF k = 0 THEN [c1 EXCEPT !.thrown = TRUE]
      ELSE
        LET user == c.users[k]
            found == findCredential(user.credentials, credentialFromClient.id) # 0
            c2 == IF ~found THEN Respond(c1, 401, failed, Undefined) ELSE c1
            verification ==
              verifyAssertionResponse(credentialFromClient, expectedChallenge, found)
            c3 == [c2 EXCEPT !.outcome = verification, !.expected = expectedChallenge]
            c4 == IF verification = "unverified"
                    THEN Respond(c3, 401, failed, Undefined) ELSE c3
            c5 == [c4 EXCEPT !.users = updateUser(c.users, username, user),
                             !.sess.challenge = 0]
            c6 == completeAuthentication(c5, errR, errS)
        IN  IF c2.thrown THEN c2
            ELSE IF verification = "throws" THEN catchBlock(c3, "verifier error")
            ELSE IF c4.thrown THEN catchBlock(c4, "headers already sent")
            \* a throw of the regenerate callback is not one of the try block
            ELSE IF c6.thrown /\ ~c6.regenerated
              THEN catchBlock(c6, "headers already sent")
            ELSE c6

\* ---------------------------------------------------- credential management
\* csrfCheck, then sessionCheck: the middleware of the credential routes.
authenticated(c, xhr) ==
  LET c0 == csrfCheck(c, xhr)
  IN  IF c0.resp.status # 0 THEN c0 ELSE sessionCheck(c0)

\* router.get("/credentials")
getCredentials(c, xhr) ==
  LET c0 == authenticated(c, xhr)
  IN  IF c0.resp.status # 0 THEN c0 ELSE Respond(c0, 200, Undefined, Undefined)

\* router.delete("/credential")
removeCredential(c, xhr, credId) ==
  LET c0 == authenticated(c, xhr)
      username == c.sess.username
      k == findUserByUsername(c.users, username)
  IN  IF c0.resp.status # 0 THEN c0
      \* user.credentials of undefined: express answers the thrown error
      ELSE IF k = 0 THEN Respond(c0, 500, "TypeError", Undefined)
      ELSE
        LET updatedCredentials ==
              SelectSeq(c.users[k].credentials, LAMBDA cred : cred.credId # credId)
        IN  Respond([c0 EXCEPT !.users =
                       updateCredentials(c.users, username, updatedCredentials)],
                    200, Undefined, Undefined)

\* router.put("/credential")
renameCredential(c, xhr, credId, name) ==
  LET cc == authenticated(c, xhr)
      c0 == IF cc.resp.status # 0 THEN cc ELSE [cc EXCEPT !.name = name]
      username == c.sess.username
      newName == escape(trim(name))
      k == findUserByUsername(c.users, username)
  IN  IF c0.resp.status # 0 THEN c0
      ELSE IF k = 0 THEN Respond(c0, 400, "TypeError", Undefined)
      ELSE
        LET credentials == c.users[k].credentials
            indexOfCredentialToUpdate == findCredential(credentials, credId)
        IN  \* updatedCredentials[-1].name of undefined throws inside the try
            IF indexOfCredentialToUpdate = 0
              THEN Respond(c0, 400, "TypeError", Undefined)
              ELSE
                LET updatedCredentials ==
                      [credentials EXCEPT ![indexOfCredentialToUpdate].name =
                         IF Falsy(newName) THEN "" ELSE newName]
                IN  Respond([c0 EXCEPT !.users =
                               updateCredentials(c.users, username, updatedCredentials)],
                            200, Undefined, Undefined)

\* user.credentials.find(cred => cred.credID === base64CredentialID): the
\* stored credentials have a credId and no credID, so cred.credID is undefined.
existingCred(credentials, base64CredentialID) ==
  \E i \in DOMAIN credentials : Undefined = base64CredentialID

\* router.post("/credential")
registerCredential(c, xhr, userAgent, body) ==
  LET cc == authenticated(c, xhr)
      expectedOrigin == getOrigin(userAgent)
      c0 == IF cc.resp.status # 0 THEN cc
            ELSE [cc EXCEPT !.userAgent = userAgent, !.origin = expectedOrigin]
      expectedChallenge == c.sess.challenge
      username == c.sess.username
      verification == verifyAttestationResponse(body, expectedChallenge)
      c1 == [c0 EXCEPT !.outcome = verification, !.expected = expectedChallenge]
      k == findUserByUsername(c.users, username)
  IN  IF c0.resp.status # 0 THEN c0
      \* getOrigin is called outside the try block
      ELSE IF expectedOrigin = "TypeError" THEN [c0 EXCEPT !.thrown = TRUE]
      ELSE IF verification = "throws" THEN catchBlock(c1, "verifier error")
      ELSE IF verification = "unverified"
        THEN Respond(c1, 400, "User verification failed", Undefined)
      \* user.credentials of undefined throws inside the try
      ELSE IF k = 0 THEN catchBlock(c1, "TypeError")
      ELSE
        LET user == c.users[k]
            newCredential == [credId |-> body.id, name |-> ""]
            push == ~existingCred(user.credentials, body.id)
            user1 == IF push
                       THEN [user EXCEPT !.credentials = Append(@, newCredential)]
                       ELSE user
        IN  Respond([c1 EXCEPT !.users = updateUser(c.users, username, user1),
                               !.added = push,
                               !.sess.challenge = 0],
                    200, Undefined, Undefined)

\* router.post("/credential-options")
credentialOptions(c, xhr) ==
  LET c0 == authenticated(c, xhr)
      k == findUserByUsername(c.users, c.sess.username)
  IN  IF c0.resp.status # 0 THEN c0
      \* user.credentials of undefined throws inside the try
      ELSE IF k = 0 THEN Respond(c0, 400, "TypeError", Undefined)
      ELSE Respond([c0 EXCEPT !.sess.challenge = c.nextChallenge,
                              !.nextChallenge = c.nextChallenge + 1],
                   200, Undefined, Undefined)

\* ------------------------------------------------------- end of a request
\* The session store once the handler is done: the session destroyed by
\* signout or by regenerate is gone (unless the store failed to destroy it),
\* and the session of the request is stored, unless it is still the empty
\* session of a request that presented none or the store failed to save it.
StoreAfter(c, st) ==
  LET s1 == IF ~c.regenerated THEN st
            ELSE IF ~c.oldKept THEN Remove(st, c.oldSid)
            ELSE IF c.oldSid \in DOMAIN st THEN Put(st, c.oldSid, c.atComplete)
            ELSE st
  IN  IF c.destroyed THEN Remove(s1, c.sid)
      ELSE IF c.save /\ (c.sid \in DOMAIN s1 \/ c.sess # EmptySession)
        THEN Put(s1, c.sid, c.sess)
        ELSE s1

\* The next id to generate: the id of an empty session that was not stored
\* is not used up.
TokenAfter(c, st, nt) ==
  IF c.tok \notin DOMAIN st /\ ~c.regenerated /\ c.sid \notin DOMAIN StoreAfter(c, st)
    THEN nt ELSE c.nextToken

\* What the request leaves for the properties to read: the session it ran
\* in (pre), the response sent, and what became of the sessions (oldLive: the
\* session the request came with is still stored; newStored: the session
\* regenerate made is stored as a 'main' session; challengeAfter: the pending
\* challenge of the session the request came with, 0 once it has none).
Outcome(op, arg, c, st, used) ==
  LET after == StoreAfter(c, st)
      sid0 == IF c.regenerated THEN c.oldSid ELSE c.sid
  IN  [op |-> op, arg |-> arg, sid |-> sid0, pre |-> c.pre, resp |-> c.resp,
       delivered |-> c.cookie = c.sid /\ c.sid \in DOMAIN after,
       regenerated |-> c.regenerated,
       oldLive |-> sid0 \in DOMAIN after,
       newStored |-> /\ c.regenerated
                     /\ c.sid \in DOMAIN after
                     /\ after[c.sid].name = "main",
       atComplete |-> c.atComplete,
       outcome |-> c.outcome,
       expected |-> c.expected,
       replay |-> c.expected \in used,
       added |-> c.added,
       created |-> c.created,
       usersBefore |-> c.users0,
       name |-> c.name,
       password |-> c.password,
       userAgent |-> c.userAgent,
       origin |-> c.origin,
       sessAfter |-> IF sid0 \in DOMAIN after THEN after[sid0] ELSE EmptySession,
       nameAfter |-> IF sid0 \in DOMAIN after THEN after[sid0].name ELSE Undefined,
       challengeAfter |-> IF sid0 \in DOMAIN after THEN after[sid0].challenge ELSE 0]

Serve(op, arg, c) ==
  /\ last.op = "none"
  /\ requests < MaxRequests
  /\ TokenAfter(c, store, nextToken) <= MaxTokens + 1
  /\ c.nextChallenge <= MaxChallenges + 1
  /\ \A i \in DOMAIN c.users : Len(c.users[i].credentials) <= MaxCreds
  /\ users' = c.users
  /\ store' = StoreAfter(c, store)
  /\ cookies' = cookies \cup
       (IF c.cookie # 0 /\ c.cookie \in DOMAIN StoreAfter(c, store)
          THEN {c.cookie} ELSE {})
  /\ nextToken' = TokenAfter(c, store, nextToken)
  /\ nextChallenge' = c.nextChallenge
  /\ mainMade' = mainMade \cup (IF c.regenerated THEN {c.sid} ELSE {})
  /\ consumed' = consumed \cup (IF c.expected # 0 THEN {c.expected} ELSE {})
  /\ issuedBy' = IF c.nextChallenge > nextChallenge
                   THEN Put(issuedBy, nextChallenge, op) ELSE issuedBy
  /\ issuedTo' = IF c.nextChallenge > nextChallenge
                   THEN Put(issuedTo, nextChallenge, c.sid) ELSE issuedTo
  /\ requests' = requests + 1
  /\ last' = Outcome(op, arg, c, store, consumed)

\* A handler that runs from the request to the response without an await
\* that lets another request in.
Handle(op, arg, c) ==
  /\ Serve(op, arg, c)
  /\ inflight' = inflight

\* ---------------------------------------------------------------- actions
Req(tok) == Request(tok, users, store, nextToken, nextChallenge)

\* What a client may send as a WebAuthn response: a credential id, the
\* challenge the response was made for, and a signature.
ClientResponses ==
  [id : CredIds, challenge : 0 .. (nextChallenge - 1),
   sig : {"valid", "invalid"}]

Signout(tok, errD) ==
  Handle("signout", Undefined, signout(Req(tok), errD))

InitializeAuthentication(tok, body, errR, errS) ==
  Handle("initialize-authentication", escape(body.username),
         initializeAuthentication([Req(tok) EXCEPT !.password = body.password],
                                  body, errR, errS))

TwoFactorOptions(tok, xhr) ==
  Handle("two-factor-options", Undefined, twoFactorOptions(Req(tok), xhr))

AuthenticateTwoFactor(tok, xhr, userAgent, credential, errR, errS) ==
  Handle("authenticate-two-factor", credential.id,
         authenticateTwoFactor(Req(tok), xhr, userAgent, credential, errR, errS))

GetCredentials(tok, xhr) ==
  Handle("credentials", Undefined, getCredentials(Req(tok), xhr))

RemoveCredential(tok, xhr, credId) ==
  Handle("remove-credential", credId, removeCredential(Req(tok), xhr, credId))

RenameCredential(tok, xhr, credId, name) ==
  Handle("rename-credential", credId, renameCredential(Req(tok), xhr, credId, name))

RegisterCredential(tok, xhr, userAgent, body) ==
  Handle("register-credential", body.id,
         registerCredential(Req(tok), xhr, userAgent, body))

CredentialOptions(tok, xhr) ==
  Handle("credential-options", Undefined, credentialOptions(Req(tok), xhr))

\* The lowdb file outlives the server: it starts empty, or with what earlier
\* runs left in it.  The sessions of earlier runs are gone.
InitialRegistries ==
  { << >>,
    << [username |-> "alice@x.com", id |-> 1,
        credentials |-> << [credId |-> "k1", name |-> ""] >>] >> }

\* Nothing is being answered: the value of last between two requests.
Idle ==
  Outcome("none", Undefined,
          Request(0, << >>, [t \in {} |-> EmptySession], 1, 1),
          [t \in {} |-> EmptySession], {})

\* No handler is suspended.  start is the registry and the sessions from
\* which the requests of log were served, log the requests in the order in
\* which their handlers began.
NoneInFlight ==
  [start |-> [users |-> << >>, store |-> [t \in {} |-> EmptySession]],
   log |-> << >>]

\* The client has received the response; the server takes the next request.
Done ==
  /\ last.op # "none"
  /\ last' = Idle
  /\ UNCHANGED <<users, store, cookies, nextToken, nextChallenge, mainMade,
                 consumed, issuedBy, issuedTo, requests, inflight>>

Init ==
  /\ users \in InitialRegistries
  /\ store = [t \in {} |-> EmptySession]
  /\ cookies = {}
  /\ nextToken = 1
  /\ nextChallenge = 1
  /\ mainMade = {}
  /\ consumed = {}
  /\ issuedBy = [n \in {} |-> Undefined]
  /\ issuedTo = [n \in {} |-> 0]
  /\ requests = 0
  /\ inflight = NoneInFlight
  /\ last = Idle

\* A request that fails the CSRF check or the input validation has the same
\* outcome whatever else it carries, so it is sent with one sample of the rest.
NoResponseSent == [id |-> "k1", challenge |-> 0, sig |-> "invalid"]
ResponsesWith(xhr) == IF xhr THEN ClientResponses ELSE {NoResponseSent}
\* The user agent decides the expected origin and nothing else: the other
\* user agents are sent with one sample of the rest.
ResponsesFrom(xhr, userAgent) ==
  IF userAgent = Browser THEN ResponsesWith(xhr) ELSE {NoResponseSent}
UserAgentsWith(xhr) == IF xhr THEN UserAgents ELSE {Browser}
Bodies ==
  [username : Usernames, password : Passwords]
    \cup {[username |-> u, password |-> "secret"] : u \in BadUsernames}
    \cup {[username |-> "alice@x.com", password |-> ""]}
\* The session store fails only where a handler reaches it: a signout of a
\* stored session, a login of a user without credentials, and a second factor
\* sent for the pending challenge of a session that holds a username and a
\* password check.
StoreErrors(reached) == IF reached THEN BOOLEAN ELSE {FALSE}
SingleFactorLogin(body) ==
  /\ body.username \in Usernames
  /\ body.password # ""
  /\ \A i \in DOMAIN users :
       users[i].username = escape(body.username) => users[i].credentials = << >>
SecondFactorDue(tok, xhr, credential) ==
  /\ xhr
  /\ tok \in DOMAIN store
  /\ ~Falsy(store[tok].username)
  /\ ~Falsy(store[tok].isPasswordCorrect)
  /\ credential.challenge = store[tok].challenge

Next ==
  \/ Done
  \/ \E tok \in (cookies \cap DOMAIN store) \cup {0} :
    \/ \E errD \in StoreErrors(tok \in DOMAIN store) : Signout(tok, errD)
    \/ \E body \in Bodies :
         \E errR \in StoreErrors(SingleFactorLogin(body)),
            errS \in StoreErrors(SingleFactorLogin(body)) :
           InitializeAuthentication(tok, body, errR, errS)
    \/ \E xhr \in BOOLEAN : TwoFactorOptions(tok, xhr)
    \/ \E xhr \in BOOLEAN :
         \E userAgent \in UserAgentsWith(xhr) :
           \E credential \in ResponsesFrom(xhr, userAgent) :
             \E errR \in StoreErrors(SecondFactorDue(tok, xhr, credential)),
                errS \in StoreErrors(SecondFactorDue(tok, xhr, credential)) :
               AuthenticateTwoFactor(tok, xhr, userAgent, credential, errR, errS)
    \/ \E xhr \in BOOLEAN : GetCredentials(tok, xhr)
    \/ \E xhr \in BOOLEAN :
         \E credId \in IF xhr THEN CredIds ELSE {"k1"} :
           RemoveCredential(tok, xhr, credId)
    \/ \E xhr \in BOOLEAN :
         \E credId \in IF xhr THEN CredIds ELSE {"k1"},
            name \in IF xhr THEN Names ELSE {""} :
           RenameCredential(tok, xhr, credId, name)
    \/ \E xhr \in BOOLEAN :
         \E userAgent \in UserAgentsWith(xhr) :
           \E body \in ResponsesFrom(xhr, userAgent) :
             RegisterCredential(tok, xhr, userAgent, body)
    \/ \E xhr \in BOOLEAN : CredentialOptions(tok, xhr)

Spec == Init /\ [][Next]_vars

\* The server right after alice, who has registered k1, logged in with three
\* requests (initialize-authentication, two-factor-options,
\* authenticate-two-factor): she holds the 'main' session that
\* completeAuthentication made, the session she began in is destroyed, and
\* the challenge of the login is used up.  Session ids are opaque and the
\* destroyed one is never seen again, so the ids count the live sessions and
\* the destroyed session, to which the challenge was issued, has the id 0.
InitReturning ==
  /\ users = << [username |-> "alice@x.com", id |-> 1,
                 credentials |-> << [credId |-> "k1", name |-> ""] >>] >>
  /\ store = [t \in {1} |-> [EmptySession EXCEPT !.name = "main",
                                                 !.username = "alice@x.com"]]
  /\ cookies = {1}
  /\ nextToken = 2
  /\ nextChallenge = 2
  /\ mainMade = {1}
  /\ consumed = {1}
  /\ issuedBy = [n \in {1} |-> "two-factor-options"]
  /\ issuedTo = [n \in {1} |-> 0]
  /\ requests = 3
  /\ inflight = NoneInFlight
  /\ last = Idle

SpecReturning == InitReturning /\ [][Next]_vars

\* ================================================================ claims
A2F == "authenticate-two-factor"
INIT == "initialize-authentication"
REGISTER == "register-credential"
AuthFailed == "Authentication failed: " \o GENERIC_AUTH_ERROR_MESSAGE

\* The request got past the middleware and its origin was resolved: the
\* handler's own checks ran.
Handled ==
  /\ last.resp.error \notin {"Invalid access", "Not authenticated"}
  /\ last.origin # "TypeError"

\* C1: an authenticate-two-factor request ends with the session regenerated
\* to 'main' only if its assertion verification returned verified = true; in
\* particular never when it returned verified = false.
C1_OnlyVerifiedAssertionCompletes ==
  (last.op = A2F /\ last.regenerated) => last.outcome = "verified"

\* C2, as stated: whenever a session is regenerated to 'main' it held a
\* username and a true password check at that moment, and an
\* authenticate-two-factor request in a session without a true password check
\* is rejected and leaves the session not 'main'.
C2_AsStated ==
  /\ last.regenerated =>
       /\ ~Falsy(last.atComplete.username)
       /\ last.atComplete.isPasswordCorrect = "true"
  /\ (last.op = A2F /\ Handled /\ Falsy(last.pre.isPasswordCorrect)) =>
       /\ last.resp.status = 401
       /\ last.nameAfter # "main"

\* C2, amended: the same, except that the rejected request leaves the session
\* as it was named: it is not regenerated, so a session that was not 'main'
\* is not 'main' afterwards (one that was 'main' already stays so).
C2_CompleteNeedsPasswordCheck ==
  /\ last.regenerated =>
       /\ ~Falsy(last.atComplete.username)
       /\ last.atComplete.isPasswordCorrect = "true"
  /\ (last.op = A2F /\ Handled /\ Falsy(last.pre.isPasswordCorrect)) =>
       /\ last.resp.status = 401
       /\ ~last.regenerated
       /\ last.nameAfter = last.pre.name

\* An assertion verified in a session that has no password check of its own.
C2_Witness ==
  /\ last.op = A2F
  /\ Falsy(last.pre.isPasswordCorrect)
  /\ last.outcome = "verified"

\* C3: every stored session named 'main' was generated by the regenerate
\* step of completeAuthentication, and only initialize-authentication and
\* authenticate-two-factor, which call it, ever regenerate a session.
C3_MainOnlyByComplete ==
  /\ \A t \in DOMAIN store : store[t].name = "main" => t \in mainMade
  /\ last.regenerated => last.op \in {INIT, A2F}

\* A 'main' session is stored and a credential was registered in it.
C3_Witness ==
  /\ last.op = REGISTER
  /\ last.added
  /\ \E t \in DOMAIN store : store[t].name = "main"

\* C4: an initialize-authentication with valid input answers Complete, and
\* completes, iff the user then has no credential, and answers
\* NeedSecondFactor, without completing, iff the user has one or more.
C4_PolicyFollowsCredentials ==
  (last.op = INIT /\ last.resp.status # 400) =>
    LET n == Len(users[findUserByUsername(users, last.arg)].credentials)
    IN  /\ last.atComplete.isPasswordCorrect = "true" \/ ~last.regenerated
        /\ (n = 0) <=> (last.resp.authStatus = COMPLETE /\ last.regenerated)
        /\ (n >= 1) <=> (last.resp.authStatus = NEED_SECOND_FACTOR /\ ~last.regenerated)

\* A user that started without credentials is asked for a second factor: a
\* credential was registered in between.
C4_Witness ==
  /\ last.op = INIT
  /\ last.arg = "b&amp;b@x.com"
  /\ last.resp.authStatus = NEED_SECOND_FACTOR

\* C5: a verification attempt whose expected challenge was already used by an
\* earlier attempt neither completes authentication nor adds a credential.
C5_ChallengeUsedOnce ==
  (last.op \in {A2F, REGISTER} /\ last.replay) => (~last.regenerated /\ ~last.added)

\* C6: after an authenticate-two-factor or register-credential attempt in a
\* session with a pending challenge, the session has no pending challenge.
C6_ChallengeCleared ==
  (last.op \in {A2F, REGISTER} /\ Handled /\ last.pre.challenge # 0)
    => last.challengeAfter = 0

\* C7: after a Complete transition the session the request came with is no
\* longer stored: its id no longer gives access to the pre-auth session.
C7_OldSessionGone ==
  last.regenerated => ~last.oldLive

\* C8: when the new 'main' session is not stored after completeAuthentication
\* ran, the old session is still valid and the caller is not told Complete.
C8_CompleteIsAtomic ==
  (last.regenerated /\ ~last.newStored) =>
    (last.oldLive /\ last.resp.authStatus # COMPLETE)

\* C9: every failing authenticate-two-factor request is answered with status
\* 401 and the one generic message.
C9_OneGenericError ==
  (last.op = A2F /\ Handled /\ last.resp.status # 200) =>
    (last.resp.status = 401 /\ last.resp.error = AuthFailed)

\* C10: the response to the first login of an unseen username is the response
\* a login of any existing user with credentials gets, whatever its password.
C10_UnknownUserIndistinguishable ==
  (last.op = INIT /\ last.created) =>
    \A v \in Usernames, q \in Passwords :
      LET k == findUserByUsername(users, escape(v))
      IN  (k # 0 /\ Len(users[k].credentials) > 0) =>
            last.resp =
              initializeAuthentication(Req(0), [username |-> v, password |-> q],
                                       FALSE, FALSE).resp

\* The credentials the registry us holds for username, << >> for no user.
CredsOf(us, username) ==
  IF findUserByUsername(us, username) = 0 THEN << >>
  ELSE us[findUserByUsername(us, username)].credentials

RENAME == "rename-credential"
REMOVE == "remove-credential"

\* C11: the credential ids of a user are pairwise distinct, and a
\* register-credential whose verified credential id the user already holds
\* answers success and leaves the length of the user's list unchanged.
C11_CredIdsDistinct ==
  /\ \A i \in DOMAIN users :
       \A a, b \in DOMAIN users[i].credentials :
         a # b => users[i].credentials[a].credId # users[i].credentials[b].credId
  /\ (/\ last.op = REGISTER
      /\ last.outcome = "verified"
      /\ findCredential(CredsOf(last.usersBefore, last.pre.username), last.arg) # 0)
     => /\ last.resp.status = 200
        /\ Len(CredsOf(users, last.pre.username))
             = Len(CredsOf(last.usersBefore, last.pre.username))

\* C12: a rename-credential with a credId the user does not hold fails and
\* leaves the registry as it was; with a credId the user holds it succeeds and
\* changes the name of that credential, to the name given (the empty name to
\* the empty string), and nothing else in the registry.
C12_RenameOnlyTheName ==
  (last.op = RENAME /\ Handled) =>
    LET before == CredsOf(last.usersBefore, last.pre.username)
        k == findUserByUsername(last.usersBefore, last.pre.username)
        held == {i \in DOMAIN before : before[i].credId = last.arg}
    IN  IF held = {}
          THEN last.resp.status = 400 /\ users = last.usersBefore
          ELSE /\ last.resp.status = 200
               /\ \E i \in held :
                    users = [last.usersBefore EXCEPT
                               ![k].credentials[i].name = escape(trim(last.name))]

\* A credential of a user who holds two was renamed to a name that was
\* sent with blanks around it.
C12_Witness ==
  /\ last.op = RENAME
  /\ last.resp.status = 200
  /\ last.name = " key "
  /\ Len(CredsOf(users, last.pre.username)) = 2

\* C13: a remove-credential succeeds whether or not the user holds the
\* credId; afterwards the user's list is the list before without the entries
\* of that credId, the others in their order (so it is unchanged when the
\* credId was not held), nothing else in the registry changed, and the same
\* removal applied again leaves the registry as it is.
C13_RemoveIsIdempotent ==
  (last.op = REMOVE /\ Handled) =>
    LET before == CredsOf(last.usersBefore, last.pre.username)
        k == findUserByUsername(last.usersBefore, last.pre.username)
    IN  /\ last.resp.status = 200
        /\ users = [last.usersBefore EXCEPT ![k].credentials =
                      SelectSeq(before, LAMBDA cred : cred.credId # last.arg)]
        /\ findCredential(before, last.arg) = 0 => users = last.usersBefore
        /\ \A t \in DOMAIN store :
             (store[t].name = "main" /\ store[t].username = last.pre.username) =>
               removeCredential(Req(t), TRUE, last.arg).users = users

\* A user who held two credentials removed one of them and holds the other.
C13_Witness ==
  /\ last.op = REMOVE
  /\ last.resp.status = 200
  /\ Len(CredsOf(last.usersBefore, last.pre.username)) = 2
  /\ Len(CredsOf(users, last.pre.username)) = 1
  /\ Len(users) = 2

\* C14: the expected challenge against which a register-credential response
\* verifies was generated by credential-options, and the one against which an
\* authenticate-two-factor response verifies by two-factor-options.
C14_ChallengeBoundToPurpose ==
  /\ (last.op = REGISTER /\ last.outcome = "verified") =>
       issuedBy[last.expected] = "credential-options"
  /\ (last.op = A2F /\ last.outcome = "verified") =>
       issuedBy[last.expected] = "two-factor-options"

CredentialRoutes ==
  {"credential-options", REGISTER, RENAME, REMOVE, "credentials"}

\* C15: a credential-options, register-credential, rename-credential,
\* remove-credential or credentials request in a session that is not 'main'
\* is rejected, as not authenticated once it is past the CSRF check, and
\* leaves the registry and the session, its pending challenge included, as
\* they were.
C15_CredentialsNeedMain ==
  (last.op \in CredentialRoutes /\ last.pre.name # "main") =>
    /\ \/ last.resp.status = 401 /\ last.resp.error = "Not authenticated"
       \/ last.resp.status = 400 /\ last.resp.error = "Invalid access"
    /\ users = last.usersBefore
    /\ last.sessAfter = last.pre
    /\ last.challengeAfter = last.pre.challenge
    /\ ~last.added

\* A register-credential in a session that awaits its second factor and has
\* a pending challenge was rejected as not authenticated.
C15_Witness ==
  /\ last.op = REGISTER
  /\ last.pre.name # "main"
  /\ last.pre.authStatus = NEED_SECOND_FACTOR
  /\ last.pre.challenge # 0
  /\ last.resp.error = "Not authenticated"

\* C16: an initialize-authentication with an empty or ill-formed username or
\* an empty password is answered 400 and changes nothing: the registry and
\* the session of the request are as they were.
C16_MalformedInputChangesNothing ==
  (last.op = INIT /\ (last.arg \in BadUsernames \/ last.password = "")) =>
    /\ last.resp.status = 400
    /\ users = last.usersBefore
    /\ ~last.created
    /\ last.sessAfter = last.pre
    /\ ~last.regenerated

\* A login with an empty password was sent in a session that awaits its
\* second factor.
C16_Witness ==
  /\ last.op = INIT
  /\ last.password = ""
  /\ last.pre.authStatus = NEED_SECOND_FACTOR
  /\ last.resp.status = 400

\* C17: the registry holds at most one user per username; a request never
\* deletes a user nor changes the id or the username of one; an
\* initialize-authentication for a username the registry does not hold adds
\* exactly one user, with that username and no credentials, and for a
\* username it holds it adds none; no other request adds a user.
C17_CreateOrGet ==
  /\ \A i, j \in DOMAIN users :
       users[i].username = users[j].username => i = j
  /\ \A i, j \in DOMAIN users : users[i].id = users[j].id => i = j
  /\ last.op # "none" =>
       /\ \A i \in DOMAIN last.usersBefore :
            /\ i \in DOMAIN users
            /\ users[i].id = last.usersBefore[i].id
            /\ users[i].username = last.usersBefore[i].username
       /\ IF /\ last.op = INIT
             /\ last.resp.status # 400
             /\ findUserByUsername(last.usersBefore, last.arg) = 0
            THEN /\ last.created
                 /\ Len(users) = Len(last.usersBefore) + 1
                 /\ users[Len(users)].username = last.arg
                 /\ users[Len(users)].credentials = << >>
            ELSE /\ ~last.created
                 /\ Len(users) = Len(last.usersBefore)

\* A user created by an earlier login logs in again, after a credential was
\* registered for them: the same record is resolved.
C17_Witness ==
  /\ last.op = INIT
  /\ ~last.created
  /\ last.arg = "b&amp;b@x.com"
  /\ Len(CredsOf(users, last.arg)) > 0
  /\ Len(users) = 2

\* C18: the expected origin of an authenticate-two-factor or
\* register-credential request is resolved without an error: to the
\* apk-key-hash origin when the user agent begins with okhttp, and to the
\* configured web origin for every other user agent, an absent one included.
C18_OriginAlwaysResolved ==
  (last.op \in {A2F, REGISTER} /\ last.origin # Undefined) =>
    LET text == last.userAgent.text
    IN  IF Len(text) >= Len(okhttp) /\ SubSeq(text, 1, Len(okhttp)) = okhttp
          THEN last.origin = androidOrigin
          ELSE last.origin = ORIGIN

\* The request ran in a session that awaits its second factor.
AwaitingSecondFactor ==
  /\ last.pre.name # "main"
  /\ last.pre.authStatus = NEED_SECOND_FACTOR
  /\ ~Falsy(last.pre.username)
  /\ ~Falsy(last.pre.isPasswordCorrect)

\* C19: after an authenticate-two-factor request that failed in a session
\* awaiting its second factor, that session is still stored, not 'main', with
\* the username, password check and status it had, and the registry is as it
\* was.
C19_FailureKeepsAwaiting ==
  (last.op = A2F /\ Handled /\ AwaitingSecondFactor /\ last.resp.status # 200) =>
    /\ ~last.regenerated
    /\ last.oldLive
    /\ last.sessAfter.name # "main"
    /\ last.sessAfter.username = last.pre.username
    /\ last.sessAfter.isPasswordCorrect = last.pre.isPasswordCorrect
    /\ last.sessAfter.authStatus = NEED_SECOND_FACTOR
    /\ users = last.usersBefore

\* The outcome of two-factor-options followed by authenticate-two-factor with
\* an assertion of the user's first credential that the verifier accepts for
\* the challenge issued, in a session sess the client holds.
FinishLogin(sess) ==
  LET r == [Req(0) EXCEPT !.sess = sess, !.pre = sess]
      o == twoFactorOptions(r, TRUE)
      creds == CredsOf(users, sess.username)
      assertion == [id |-> creds[1].credId, challenge |-> o.sess.challenge,
                    sig |-> "valid"]
  IN  authenticateTwoFactor([o EXCEPT !.resp = NoResponse, !.cookie = 0],
                            TRUE, Browser, assertion, FALSE, FALSE)

\* C20: in a session awaiting its second factor, of a user with a credential,
\* an authenticate-two-factor whose assertion verifies answers Complete and
\* regenerates the session; and after one that failed, a new challenge and an
\* assertion that verifies for it, sent in the session the client holds, still
\* end in Complete.
C20_LoginCanBeFinished ==
  (last.op = A2F /\ Handled /\ AwaitingSecondFactor
     /\ CredsOf(users, last.pre.username) # << >>) =>
    /\ last.outcome = "verified" =>
         /\ last.resp.status = 200
         /\ last.resp.authStatus = COMPLETE
         /\ last.regenerated
    /\ last.resp.status # 200 =>
         /\ CredsOf(users, last.sessAfter.username) # << >>
         /\ FinishLogin(last.sessAfter).resp.authStatus = COMPLETE
         /\ FinishLogin(last.sessAfter).regenerated

\* The options endpoints.
OPTIONS == {"two-factor-options", "credential-options"}

\* One step of the server, as C21 reads it.
C21_Step ==
  \* a session holds one challenge or none, and no two sessions the same one
  /\ \A t \in DOMAIN store' :
       /\ store'[t].challenge \in 0 .. (nextChallenge' - 1)
       /\ \A u \in DOMAIN store' \ {t} :
            store'[t].challenge # 0 => store'[u].challenge # store'[t].challenge
  \* an options request that succeeds stores a new challenge in the place of
  \* the one the session held
  /\ (last'.op \in OPTIONS /\ last'.resp.status = 200) =>
       /\ last'.challengeAfter = nextChallenge
       /\ nextChallenge' = nextChallenge + 1
       /\ last'.challengeAfter # last'.pre.challenge
  \* a verification expects a challenge issued to the session it runs in
  /\ last'.expected # 0 =>
       /\ last'.expected \in DOMAIN issuedTo
       /\ issuedTo[last'.expected] = last'.sid
  \* the sessions the request did not run in are as they were
  /\ \A t \in DOMAIN store :
       t # last'.sid => t \in DOMAIN store' /\ store'[t] = store[t]

\* C21: sessions are isolated: a session has at most one pending challenge,
\* issuing a challenge replaces the one the session held, a challenge is the
\* expected challenge of a verification only in the session it was issued to,
\* and a request changes no field of a session other than the one it runs in.
C21_SessionsIsolated == [][C21_Step]_vars

\* A verification against a pending challenge while another session holds a
\* pending challenge of its own.
C21_Witness ==
  /\ last.op \in {A2F, REGISTER}
  /\ last.expected # 0
  /\ \E t \in DOMAIN store : t # last.sid /\ store[t].challenge # 0

\* C23: the 'main' session that completeAuthentication stores holds the
\* username of the session it was completed in and the name 'main', and
\* nothing else: no password check, no authStatus and no pending challenge.
C23_MainCarriesOnlyUsername ==
  (last.regenerated /\ last.newStored) =>
    /\ (nextToken - 1) \in DOMAIN store
    /\ store[nextToken - 1] =
         [EmptySession EXCEPT !.name = "main",
                              !.username = last.atComplete.username]
    /\ store[nextToken - 1].isPasswordCorrect = Undefined
    /\ store[nextToken - 1].authStatus = Undefined
    /\ store[nextToken - 1].challenge = 0

\* A two-factor login completed in a session that held a true password
\* check, the needSecondFactor status and a pending challenge.
C23_Witness ==
  /\ last.op = A2F
  /\ last.regenerated
  /\ last.newStored
  /\ last.pre.isPasswordCorrect = "true"
  /\ last.pre.authStatus = NEED_SECOND_FACTOR
  /\ last.pre.challenge # 0

\* C24: a session that is 'main' before a request and 'main' after it is
\* bound to the same username after it as before: only completeAuthentication,
\* which stores a new session, binds a 'main' session to a username.
C24_MainIdentityFixed ==
  (last.pre.name = "main" /\ last.sessAfter.name = "main") =>
    last.sessAfter.username = last.pre.username

\* The credential id of the request is none of the credentials that the user
\* of its session held when it arrived.
UnknownCredential ==
  \A i \in DOMAIN CredsOf(last.usersBefore, last.pre.username) :
    CredsOf(last.usersBefore, last.pre.username)[i].credId # last.arg

C26_RejectionEndsTheRequest ==
  (last.op = A2F /\ last.resp.status = 401) =>
    /\ last.outcome = "none"
    /\ users = last.usersBefore
    /\ last.challengeAfter = last.pre.challenge
    /\ ~last.regenerated

\* C27: once a signout is answered the session it was sent in is no longer
\* stored, so that a later request presenting its id, the credential routes
\* included, runs in an empty session, which sessionCheck rejects.
C27_SignoutEndsAuthentication ==
  (last.op = "signout" /\ last.resp.status = 307) =>
    /\ ~last.oldLive
    /\ last.sid \notin DOMAIN store
    /\ last.sessAfter.name # "main"

\* ------------------------------------------------------ requests in flight
\* Requests begun and not yet answered, with those answered meanwhile.
MaxInFlight == 3

\* Two 'main' sessions of alice, each with the pending challenge that a
\* credential-options request stored in it; alice has registered k1 or
\* nothing yet, and another user holds a credential of their own.
InFlightRegistries ==
  { << [username |-> "alice@x.com", id |-> 1, credentials |-> creds],
       [username |-> "b&amp;b@x.com", id |-> 2,
        credentials |-> << [credId |-> "k1", name |-> ""] >>] >> :
      creds \in { << >>, << [credId |-> "k1", name |-> ""] >> } }

InFlightSessions ==
  [t \in {1, 2} |-> [EmptySession EXCEPT !.name = "main",
                                         !.username = "alice@x.com",
                                         !.challenge = t]]

InitInFlight ==
  /\ users \in InFlightRegistries
  /\ store = InFlightSessions
  /\ cookies = {1, 2}
  /\ nextToken = 3
  /\ nextChallenge = 3
  /\ mainMade = {1, 2}
  /\ consumed = {}
  /\ issuedBy = [n \in {1, 2} |-> "credential-options"]
  /\ issuedTo = [n \in {1, 2} |-> n]
  /\ requests = 0
  /\ inflight = [start |-> [users |-> users, store |-> InFlightSessions],
                 log |-> << >>]
  /\ last = Idle

\* A request as the log keeps it: sess is req.session as the request loaded
\* it when it arrived.
Entry(op, tok, credId, name, body, awaiting) ==
  [op |-> op, tok |-> tok, credId |-> credId, name |-> name, body |-> body,
   sess |-> store[tok], awaiting |-> awaiting]

\* The request of a register-credential when its await returns: req.session
\* is the object loaded when the request arrived, from which the expected
\* challenge and the username were read before the await; the registry is
\* read after it (findUserByUsername).
afterAwait(e, us, st, nt, nc) ==
  [Request(e.tok, us, st, nt, nc) EXCEPT !.sess = e.sess, !.pre = e.sess]

\* router.post("/credential") up to its await: the middleware has let the
\* request through and the verifier is at work.
RegisterBegin(tok, body) ==
  /\ last.op = "none"
  /\ Len(inflight.log) < MaxInFlight
  /\ authenticated(Req(tok), TRUE).resp.status = 0
  /\ inflight' = [inflight EXCEPT
                    !.log = Append(@, Entry("register-credential", tok, body.id,
                                            "", body, TRUE))]
  /\ UNCHANGED <<users, store, cookies, nextToken, nextChallenge, mainMade,
                 consumed, issuedBy, issuedTo, requests, last>>

\* router.post("/credential") from its await to the response.
RegisterResume(i) ==
  /\ inflight.log[i].awaiting
  /\ Serve("register-credential", inflight.log[i].body.id,
           registerCredential(afterAwait(inflight.log[i], users, store,
                                         nextToken, nextChallenge),
                              TRUE, Browser, inflight.log[i].body))
  /\ inflight' = [inflight EXCEPT !.log[i].awaiting = FALSE]

\* router.delete("/credential") and router.put("/credential") have no await:
\* they run between the await and the resumption of the requests in flight.
RemoveInFlight(tok, credId) ==
  /\ Len(inflight.log) < MaxInFlight
  /\ Serve("remove-credential", credId, removeCredential(Req(tok), TRUE, credId))
  /\ inflight' = [inflight EXCEPT
                    !.log = Append(@, Entry("remove-credential", tok, credId, "",
                                            NoResponseSent, FALSE))]

RenameInFlight(tok, credId, name) ==
  /\ Len(inflight.log) < MaxInFlight
  /\ Serve("rename-credential", credId,
           renameCredential(Req(tok), TRUE, credId, name))
  /\ inflight' = [inflight EXCEPT
                    !.log = Append(@, Entry("rename-credential", tok, credId, name,
                                            NoResponseSent, FALSE))]

\* The attestations a client holds for the challenge pending in its session.
AttestationsFor(tok) ==
  {r \in ClientResponses : r.challenge = store[tok].challenge}

NextInFlight ==
  \/ Done
  \/ \E tok \in cookies \cap DOMAIN store :
       \/ \E body \in AttestationsFor(tok) : RegisterBegin(tok, body)
       \/ \E credId \in CredIds : RemoveInFlight(tok, credId)
       \/ \E credId \in CredIds, name \in Names : RenameInFlight(tok, credId, name)
  \/ \E i \in DOMAIN inflight.log : RegisterResume(i)

SpecInFlight == InitInFlight /\ [][NextInFlight]_vars

\* The registry and the sessions after the request e is served alone, from
\* arrival to response, in the registry and the sessions s.
Replay(e, s) ==
  LET r == Request(e.tok, s.users, s.store, nextToken, nextChallenge)
      c == IF e.op = "register-credential"
             THEN registerCredential(r, TRUE, Browser, e.body)
             ELSE IF e.op = "remove-credential"
               THEN removeCredential(r, TRUE, e.credId)
               ELSE renameCredential(r, TRUE, e.credId, e.name)
  IN  [users |-> c.users, store |-> StoreAfter(c, s.store)]

\* The requests of the log served one after the other in the given order,
\* from the k-th of them on.
RECURSIVE SerialRun(_, _, _)
SerialRun(order, k, s) ==
  IF k > Len(order) THEN s
  ELSE SerialRun(order, k + 1, Replay(inflight.log[order[k]], s))

Orders(n) ==
  {f \in [1 .. n -> 1 .. n] : \A i, j \in 1 .. n : i # j => f[i] # f[j]}

AllAnswered == \A i \in DOMAIN inflight.log : ~inflight.log[i].awaiting

\* C22: once the register-credential, rename-credential and remove-credential
\* requests that were in flight together are all answered, the registry is
\* what serving them one at a time, in some order, makes of the registry
\* they started from: alice's credentials are those of a serial run and the
\* credentials of the other user are unchanged.
C22_MutationsSerialized ==
  AllAnswered =>
    \E order \in Orders(Len(inflight.log)) :
      SerialRun(order, 1, inflight.start).users = users

====
